---- MODULE Spec2Model ----
(***************************************************************************)
(* The spaced-repetition scheduler of the study application                *)
(* (src/frontend/lib/spacedRepetitionService.ts, class                     *)
(* SpacedRepetitionService): the review records and the daily session      *)
(* records kept in localStorage, the operations that write them            *)
(* (recordReview, deleteData) and the queries that read them (getDueCards, *)
(* getUpcomingCards, getTodayStats, calculateStreak).                      *)
(*                                                                         *)
(* Units.  Timestamps are kept in hours (the code keeps milliseconds and   *)
(* adds interval * 24 * 60 * 60 * 1000); the clock moves in steps of half  *)
(* a day, so a review can fall at midnight or inside a day.  Local         *)
(* midnight (setHours(0,0,0,0)) is the start of the 24-hour day, i.e. a    *)
(* time zone without daylight-saving shifts.                               *)
(* Ease factors are kept in hundredths (2.5 is 250, 1.3 is 130).  The      *)
(* code computes them in IEEE-754 doubles; for every sequence of at most   *)
(* five reviews of a card the doubles give the same intervals and          *)
(* repetitions as this exact arithmetic, and MaxReviews stays within that. *)
(* A Date written by JSON.stringify and read back by new Date() is the     *)
(* same instant, so stored dates are kept as the instants themselves.      *)
(* An absent value (undefined, null) is the empty sequence and a present   *)
(* one a one-element sequence.                                             *)
(***************************************************************************)
EXTENDS Integers, Sequences, FiniteSets, TLC

VARIABLES
    localStorage,   \* the two items of the browser store, by key
    now,            \* the system clock, in hours
    nCalls,         \* recordReview calls made so far
    lastCall,       \* the call that made the last step, and how it ended
    tally,          \* per deck and day: the recordReview calls that returned
                    \* since the deck's data was last deleted, the sum of
                    \* their qualities and how many had quality >= 3
                    \* (history, not program state)
    goodRun,        \* per deck and card: the returned recordReview calls
                    \* with quality >= 3 since the last one with a lower
                    \* quality or the last deletion of the deck's data
                    \* (history, not program state)
    tabs            \* per browser tab: where its recordReview call stands
                    \* and the lists the call holds in its local variables

vars == <<localStorage, now, nCalls, lastCall, tally, goodRun, tabs>>

(***************************************************************************)
(* Bounds of the model.                                                    *)
(***************************************************************************)
MaxTicks == 3         \* clock steps of a run of Spec, SpecSched and SpecFail
MaxCalls == 2         \* recordReview calls of a run of Spec and SpecFail
MaxReviews == 4       \* recordReview calls of a run of SpecSched
MaxStreakTicks == 6   \* clock steps of a run of SpecStreak
MaxStreakCalls == 3   \* recordReview calls of a run of SpecStreak
MaxPriorRepetitions == 2   \* repetitions of a restored review record

Cards == {"c1", "c2"}
Tabs == {"t1", "t2"}
Decks == {"d1", "d2"}
Qualities == 1 .. 4

(***************************************************************************)
(* Program constants.                                                      *)
(***************************************************************************)
REVIEWS_KEY == "studyForge_sr_reviews"
SESSIONS_KEY == "studyForge_sr_sessions"
Keys == {REVIEWS_KEY, SESSIONS_KEY}

HoursPerDay == 24
InitialEase == 250
EaseFloor == 130
FirstInterval == 1
SecondInterval == 6
DefaultLimit == 10

ClockStep == HoursPerDay \div 2

(***************************************************************************)
(* Arithmetic helpers.                                                     *)
(***************************************************************************)
Max(a, b) == IF a >= b THEN a ELSE b

\* Math.round(n / d) for n >= 0, d > 0: halves round up.
Round(n, d) == (2 * n + d) \div (2 * d)

\* today.setHours(0, 0, 0, 0): the local midnight at or before t.
StartOfDay(t) == (t \div HoursPerDay) * HoursPerDay

RECURSIVE Gcd(_, _)
Gcd(a, b) == IF b = 0 THEN a ELSE Gcd(b, a % b)

\* A quality average as an exact fraction in lowest terms.  The code
\* keeps a double; for up to six reviews a day the double is the one
\* nearest to this fraction.
Frac(n, d) == [num |-> n \div Gcd(n, d), den |-> d \div Gcd(n, d)]

(***************************************************************************)
(* Array helpers.                                                          *)
(***************************************************************************)
\* Array.prototype.find: the first element of s among those at the
\* indices `hits` (the ones that satisfy the predicate), if any.
Find(s, hits) ==
    IF hits = {} THEN <<>>
    ELSE <<s[CHOOSE i \in hits : \A j \in hits : i <= j]>>

\* Array.prototype.slice(0, limit) for limit >= 0.
Slice(s, limit) == SubSeq(s, 1, IF limit < Len(s) THEN limit ELSE Len(s))

(***************************************************************************)
(* The store.                                                              *)
(***************************************************************************)
\* An item is absent ("null"), the JSON text of an array of records
\* ("json"), or malformed: text that is no JSON ("text"), JSON that is no
\* array, such as {} ("value"), or an array with a null among its
\* elements ("nullElement").  val is the list of records of a "json"
\* item; a malformed item keeps the records its text held before the
\* damage.
NullItem == [kind |-> "null", val |-> <<>>]
JsonItem(list) == [kind |-> "json", val |-> list]
MalformedKinds == {"text", "value", "nullElement"}

\* ParseItem without the try/catch and with the damage undone.
ParseItemIgnoringKind(item) == item.val

\* getReviews / getSessions: [] for an absent item; for a malformed one
\* JSON.parse, .map or the property read on null throws inside the try
\* and the catch returns []; otherwise the stored records.
ParseItem(item) == IF item.kind = "json" THEN item.val ELSE <<>>

getReviews == ParseItem(localStorage[REVIEWS_KEY])
getSessions == ParseItem(localStorage[SESSIONS_KEY])

(***************************************************************************)
(* recordReview: the SM-2 step.                                            *)
(***************************************************************************)
\* NewEaseFactor without the Math.max(1.3, ...) floor.
NewEaseFactorNoFloor(existing, quality) ==
    IF existing /= <<>>
    THEN existing[1].easeFactor
           + (10 - (5 - quality) * (8 + (5 - quality) * 2))
    ELSE InitialEase

\* NewEaseFactor without the quadratic term of the SM-2 formula.
NewEaseFactorNoQuadratic(existing, quality) ==
    IF existing /= <<>>
    THEN Max(EaseFloor, existing[1].easeFactor + (10 - (5 - quality) * 8))
    ELSE InitialEase

\* NewEaseFactor with the quality counted from 4 in place of 5, as on a
\* scale whose best grade is 4.
NewEaseFactorShiftedScale(existing, quality) ==
    IF existing /= <<>>
    THEN Max(EaseFloor,
             existing[1].easeFactor
               + (10 - (4 - quality) * (8 + (4 - quality) * 2)))
    ELSE InitialEase

\* The ease factor after a review of the given quality (hundredths).
NewEaseFactor(existing, quality) ==
    IF existing /= <<>>
    THEN Max(EaseFloor,
             existing[1].easeFactor
               + (10 - (5 - quality) * (8 + (5 - quality) * 2)))
    ELSE InitialEase

\* NewRepetitions that keeps the count on a review with quality < 3.
NewRepetitionsNoReset(existing, quality) ==
    IF existing /= <<>>
    THEN IF quality < 3 THEN existing[1].repetitions
         ELSE existing[1].repetitions + 1
    ELSE IF quality < 3 THEN 0 ELSE 1

NewRepetitions(existing, quality) ==
    IF existing /= <<>>
    THEN IF quality < 3 THEN 0 ELSE existing[1].repetitions + 1
    ELSE IF quality < 3 THEN 0 ELSE 1

\* BaseInterval with the ease factor the card had before the review.
BaseIntervalOldEase(existing, repetitions, easeFactor) ==
    IF repetitions = 0 THEN FirstInterval
    ELSE IF repetitions = 1 THEN SecondInterval
    ELSE LET old == IF existing /= <<>> /\ existing[1].interval /= 0
                    THEN existing[1].interval ELSE 1
         IN  Round(old * existing[1].easeFactor, 100)

\* BaseInterval without the fixed second interval of 6 days.
BaseIntervalAlwaysScaled(existing, repetitions, easeFactor) ==
    IF repetitions = 0 THEN FirstInterval
    ELSE LET old == IF existing /= <<>> /\ existing[1].interval /= 0
                    THEN existing[1].interval ELSE 1
         IN  Round(old * easeFactor, 100)

\* The interval before the quality adjustment.
BaseInterval(existing, repetitions, easeFactor) ==
    IF repetitions = 0 THEN FirstInterval
    ELSE IF repetitions = 1 THEN SecondInterval
    ELSE LET old == IF existing /= <<>> /\ existing[1].interval /= 0
                    THEN existing[1].interval ELSE 1
         IN  Round(old * easeFactor, 100)

\* AdjustInterval with Math.floor in place of Math.round for "easy".
AdjustIntervalEasyFloor(interval, quality) ==
    CASE quality = 1 -> Max(1, Round(interval * 2, 10))
      [] quality = 2 -> Max(1, Round(interval * 6, 10))
      [] quality = 4 -> (interval * 13) \div 10
      [] OTHER -> interval

\* AdjustInterval without the Math.max(1, ...) of "again" and "hard".
AdjustIntervalNoMinimum(interval, quality) ==
    CASE quality = 1 -> Round(interval * 2, 10)
      [] quality = 2 -> Round(interval * 6, 10)
      [] quality = 4 -> Round(interval * 13, 10)
      [] OTHER -> interval

\* AdjustInterval without the 1.3 multiplier of "easy".
AdjustIntervalNoEasy(interval, quality) ==
    CASE quality = 1 -> Max(1, Round(interval * 2, 10))
      [] quality = 2 -> Max(1, Round(interval * 6, 10))
      [] OTHER -> interval

\* The quality-based adjustment (the switch).
AdjustInterval(interval, quality) ==
    CASE quality = 1 -> Max(1, Round(interval * 2, 10))
      [] quality = 2 -> Max(1, Round(interval * 6, 10))
      [] quality = 4 -> Round(interval * 13, 10)
      [] OTHER -> interval

\* NewReview with the next review counted from the midnight before the
\* review.
NewReviewMidnightAligned(existing, studyPackId, cardId, quality, t) ==
    LET easeFactor == NewEaseFactor(existing, quality)
        repetitions == NewRepetitions(existing, quality)
        interval == AdjustInterval(
                        BaseInterval(existing, repetitions, easeFactor), quality)
    IN  [cardId |-> cardId,
         studyPackId |-> studyPackId,
         quality |-> quality,
         reviewDate |-> t,
         interval |-> interval,
         easeFactor |-> easeFactor,
         repetitions |-> repetitions,
         nextReview |-> StartOfDay(t) + interval * HoursPerDay]

\* NewReview with the interval added to the review date as hours.
NewReviewIntervalInHours(existing, studyPackId, cardId, quality, t) ==
    LET easeFactor == NewEaseFactor(existing, quality)
        repetitions == NewRepetitions(existing, quality)
        interval == AdjustInterval(
                        BaseInterval(existing, repetitions, easeFactor), quality)
    IN  [cardId |-> cardId,
         studyPackId |-> studyPackId,
         quality |-> quality,
         reviewDate |-> t,
         interval |-> interval,
         easeFactor |-> easeFactor,
         repetitions |-> repetitions,
         nextReview |-> t + interval]

\* The record recordReview builds for (cardId, studyPackId) at time t.
NewReview(existing, studyPackId, cardId, quality, t) ==
    LET easeFactor == NewEaseFactor(existing, quality)
        repetitions == NewRepetitions(existing, quality)
        interval == AdjustInterval(
                        BaseInterval(existing, repetitions, easeFactor), quality)
    IN  [cardId |-> cardId,
         studyPackId |-> studyPackId,
         quality |-> quality,
         reviewDate |-> t,
         interval |-> interval,
         easeFactor |-> easeFactor,
         repetitions |-> repetitions,
         nextReview |-> t + interval * HoursPerDay]

\* SameCard without the comparison of the deck.
SameCardAnyDeck(r, studyPackId, cardId) == r.cardId = cardId

SameCard(r, studyPackId, cardId) ==
    r.cardId = cardId /\ r.studyPackId = studyPackId

\* reviews.find(r => r.cardId === cardId && r.studyPackId === studyPackId)
ReviewOf(reviews, studyPackId, cardId) ==
    Find(reviews, {i \in 1 .. Len(reviews) :
                      SameCard(reviews[i], studyPackId, cardId)})

\* UpdatedReviews without the filter that drops the card's old record.
UpdatedReviewsKeepOld(reviews, studyPackId, cardId, quality, t) ==
    LET existing == ReviewOf(reviews, studyPackId, cardId)
    IN  Append(reviews, NewReview(existing, studyPackId, cardId, quality, t))

\* The list recordReview writes under REVIEWS_KEY.
UpdatedReviews(reviews, studyPackId, cardId, quality, t) ==
    LET existing == ReviewOf(reviews, studyPackId, cardId)
    IN  Append(SelectSeq(reviews, LAMBDA r : ~SameCard(r, studyPackId, cardId)),
               NewReview(existing, studyPackId, cardId, quality, t))

\* updateSessionStats: the list it writes under SESSIONS_KEY.
\* IsTodaySession with the session date compared to the time of the call
\* in place of the midnight before it.
IsTodaySessionExact(s, studyPackId, t) ==
    s.studyPackId = studyPackId /\ s.date = t

IsTodaySession(s, studyPackId, t) ==
    s.studyPackId = studyPackId /\ s.date = StartOfDay(t)

\* UpdatedSessions with the total divided by the count before the
\* increment.
UpdatedSessionsStaleCount(sessions, studyPackId, quality, t) ==
    LET hits == {i \in 1 .. Len(sessions) :
                    IsTodaySession(sessions[i], studyPackId, t)}
    IN  IF Find(sessions, hits) /= <<>>
        THEN LET i == CHOOSE k \in hits : \A j \in hits : k <= j
                 old == Find(sessions, hits)[1]
                 totalNum == old.averageQuality.num * old.cardsReviewed
                               + quality * old.averageQuality.den
                 count == old.cardsReviewed + 1
             IN  [sessions EXCEPT ![i] =
                    [old EXCEPT !.cardsReviewed = count,
                                !.averageQuality =
                                    Frac(totalNum, old.averageQuality.den
                                                     * old.cardsReviewed)]]
        ELSE Append(sessions,
                    [studyPackId |-> studyPackId,
                     date |-> StartOfDay(t),
                     cardsReviewed |-> 1,
                     averageQuality |-> Frac(quality, 1)])

UpdatedSessions(sessions, studyPackId, quality, t) ==
    LET hits == {i \in 1 .. Len(sessions) :
                    IsTodaySession(sessions[i], studyPackId, t)}
    IN  IF Find(sessions, hits) /= <<>>
        THEN LET i == CHOOSE k \in hits : \A j \in hits : k <= j
                 old == Find(sessions, hits)[1]
                 \* averageQuality * cardsReviewed + quality
                 totalNum == old.averageQuality.num * old.cardsReviewed
                               + quality * old.averageQuality.den
                 count == old.cardsReviewed + 1
             IN  [sessions EXCEPT ![i] =
                    [old EXCEPT !.cardsReviewed = count,
                                !.averageQuality =
                                    Frac(totalNum, old.averageQuality.den * count)]]
        ELSE Append(sessions,
                    [studyPackId |-> studyPackId,
                     date |-> StartOfDay(t),
                     cardsReviewed |-> 1,
                     averageQuality |-> Frac(quality, 1)])

\* The history after one more review of the deck at time t.
Tallied(studyPackId, quality, t) ==
    LET key == <<studyPackId, t \div HoursPerDay>>
    IN  IF key \in DOMAIN tally
        THEN [tally EXCEPT ![key] =
                 [count |-> @.count + 1,
                  sum |-> @.sum + quality,
                  good |-> @.good + (IF quality >= 3 THEN 1 ELSE 0)]]
        ELSE (key :> [count |-> 1, sum |-> quality,
                      good |-> IF quality >= 3 THEN 1 ELSE 0]) @@ tally

\* The history without the days of a deck.
Untallied(studyPackId) ==
    [key \in {k \in DOMAIN tally : k[1] /= studyPackId} |-> tally[key]]

\* The run of successful reviews of a card after one more review.
Extended(studyPackId, cardId, quality) ==
    LET key == <<studyPackId, cardId>>
        run == IF quality < 3 THEN 0
               ELSE IF key \in DOMAIN goodRun THEN goodRun[key] + 1 ELSE 1
    IN  (key :> run) @@ goodRun

\* The runs without the cards of a deck.
Forgotten(studyPackId) ==
    [key \in {k \in DOMAIN goodRun : k[1] /= studyPackId} |-> goodRun[key]]

Call(op, studyPackId, cardId, quality, outcome) ==
    [op |-> op, studyPackId |-> studyPackId, cardId |-> cardId,
     quality |-> quality, outcome |-> outcome]

\* recordReview returns: both items are written.
RecordReview(studyPackId, cardId, quality) ==
    /\ localStorage' =
         [localStorage EXCEPT
            ![REVIEWS_KEY] = JsonItem(UpdatedReviews(getReviews, studyPackId,
                                                     cardId, quality, now)),
            ![SESSIONS_KEY] = JsonItem(UpdatedSessions(getSessions, studyPackId,
                                                       quality, now))]
    /\ nCalls' = nCalls + 1
    /\ lastCall' = Call("recordReview", studyPackId, cardId, quality, "returned")
    /\ tally' = Tallied(studyPackId, quality, now)
    /\ goodRun' = Extended(studyPackId, cardId, quality)
    /\ UNCHANGED <<now, tabs>>

\* localStorage.setItem(REVIEWS_KEY, ...) throws (the quota is exceeded):
\* nothing is written and the exception leaves recordReview.
RecordReviewFailsFirstWrite(studyPackId, cardId, quality) ==
    /\ nCalls' = nCalls + 1
    /\ lastCall' = Call("recordReview", studyPackId, cardId, quality, "threw")
    /\ UNCHANGED <<localStorage, now, tally, goodRun, tabs>>

\* The reviews are written, then setItem(SESSIONS_KEY, ...) throws inside
\* updateSessionStats and the exception leaves recordReview.
RecordReviewFailsSecondWrite(studyPackId, cardId, quality) ==
    /\ localStorage' =
         [localStorage EXCEPT
            ![REVIEWS_KEY] = JsonItem(UpdatedReviews(getReviews, studyPackId,
                                                     cardId, quality, now))]
    /\ nCalls' = nCalls + 1
    /\ lastCall' = Call("recordReview", studyPackId, cardId, quality, "threw")
    /\ UNCHANGED <<now, tally, goodRun, tabs>>

(***************************************************************************)
(* recordReview in two browser tabs.  The tabs share localStorage; each   *)
(* runs its own call from start to end, but between two accesses of one    *)
(* tab to the store the other tab may read or write it.  A call is four    *)
(* steps: read the reviews and build the new list, write it, read the      *)
(* sessions and build the new list, write it.                              *)
(***************************************************************************)
IdleTab ==
    [pc |-> "idle", studyPackId |-> "", cardId |-> "", quality |-> 0,
     reviews |-> <<>>, sessions |-> <<>>, today |-> 0]

\* getReviews() and the lines up to updatedReviews.push(newReview).
TabGetReviews(tab, studyPackId, cardId, quality) ==
    /\ tabs[tab].pc = "idle"
    /\ tabs' = [tabs EXCEPT ![tab] =
                  [pc |-> "setReviews", studyPackId |-> studyPackId,
                   cardId |-> cardId, quality |-> quality,
                   reviews |-> UpdatedReviews(getReviews, studyPackId,
                                              cardId, quality, now),
                   sessions |-> <<>>, today |-> 0]]
    /\ nCalls' = nCalls + 1
    /\ lastCall' = Call("recordReview", studyPackId, cardId, quality, "running")
    /\ UNCHANGED <<localStorage, now, tally, goodRun>>

\* localStorage.setItem(REVIEWS_KEY, JSON.stringify(updatedReviews)).
TabSetReviews(tab) ==
    /\ tabs[tab].pc = "setReviews"
    /\ localStorage' =
         [localStorage EXCEPT ![REVIEWS_KEY] = JsonItem(tabs[tab].reviews)]
    /\ tabs' = [tabs EXCEPT ![tab].pc = "getSessions"]
    /\ lastCall' = Call("recordReview", tabs[tab].studyPackId, tabs[tab].cardId,
                        tabs[tab].quality, "running")
    /\ UNCHANGED <<now, nCalls, tally, goodRun>>

\* updateSessionStats up to its setItem: getSessions(), today, the update.
TabGetSessions(tab) ==
    /\ tabs[tab].pc = "getSessions"
    /\ tabs' = [tabs EXCEPT
                  ![tab].pc = "setSessions",
                  ![tab].sessions = UpdatedSessions(getSessions,
                                                    tabs[tab].studyPackId,
                                                    tabs[tab].quality, now),
                  ![tab].today = now]
    /\ lastCall' = Call("recordReview", tabs[tab].studyPackId, tabs[tab].cardId,
                        tabs[tab].quality, "running")
    /\ UNCHANGED <<localStorage, now, nCalls, tally, goodRun>>

\* localStorage.setItem(SESSIONS_KEY, JSON.stringify(sessions)); the call
\* returns.
TabSetSessions(tab) ==
    /\ tabs[tab].pc = "setSessions"
    /\ localStorage' =
         [localStorage EXCEPT ![SESSIONS_KEY] = JsonItem(tabs[tab].sessions)]
    /\ tabs' = [tabs EXCEPT ![tab] = IdleTab]
    /\ lastCall' = Call("recordReview", tabs[tab].studyPackId, tabs[tab].cardId,
                        tabs[tab].quality, "returned")
    /\ tally' = Tallied(tabs[tab].studyPackId, tabs[tab].quality,
                        tabs[tab].today)
    /\ goodRun' = Extended(tabs[tab].studyPackId, tabs[tab].cardId,
                           tabs[tab].quality)
    /\ UNCHANGED <<now, nCalls>>

(***************************************************************************)
(* deleteData.                                                             *)
(***************************************************************************)
\* OtherDeck with the test the other way round: the deck's own records.
OtherDeckInverted(list, studyPackId) ==
    SelectSeq(list, LAMBDA r : r.studyPackId = studyPackId)

OtherDeck(list, studyPackId) ==
    SelectSeq(list, LAMBDA r : r.studyPackId /= studyPackId)

\* DeleteData that removes the deck's review records and leaves its
\* session records.
DeleteDataReviewsOnly(studyPackId) ==
    /\ localStorage' =
         [localStorage EXCEPT
            ![REVIEWS_KEY] = JsonItem(OtherDeck(getReviews, studyPackId)),
            ![SESSIONS_KEY] = JsonItem(getSessions)]
    /\ lastCall' = Call("deleteData", studyPackId, "", 0, "returned")
    /\ tally' = Untallied(studyPackId)
    /\ goodRun' = Forgotten(studyPackId)
    /\ UNCHANGED <<now, nCalls, tabs>>

DeleteData(studyPackId) ==
    /\ localStorage' =
         [localStorage EXCEPT
            ![REVIEWS_KEY] = JsonItem(OtherDeck(getReviews, studyPackId)),
            ![SESSIONS_KEY] = JsonItem(OtherDeck(getSessions, studyPackId))]
    /\ lastCall' = Call("deleteData", studyPackId, "", 0, "returned")
    /\ tally' = Untallied(studyPackId)
    /\ goodRun' = Forgotten(studyPackId)
    /\ UNCHANGED <<now, nCalls, tabs>>

DeleteDataFailsFirstWrite(studyPackId) ==
    /\ lastCall' = Call("deleteData", studyPackId, "", 0, "threw")
    /\ UNCHANGED <<localStorage, now, nCalls, tally, goodRun, tabs>>

DeleteDataFailsSecondWrite(studyPackId) ==
    /\ localStorage' =
         [localStorage EXCEPT
            ![REVIEWS_KEY] = JsonItem(OtherDeck(getReviews, studyPackId))]
    /\ lastCall' = Call("deleteData", studyPackId, "", 0, "threw")
    /\ UNCHANGED <<now, nCalls, tally, goodRun, tabs>>

(***************************************************************************)
(* Restoring a backup (src/frontend/lib/exportService.ts,                  *)
(* importSpacedRepetition): the review records of the backup file replace  *)
(* the stored ones or are appended to them.  The backup here holds review  *)
(* records only, so the session item is not written; the stored review     *)
(* item is absent or well formed.                                          *)
(***************************************************************************)
ImportReviews(reviews, overwrite) ==
    /\ localStorage[REVIEWS_KEY].kind \in {"null", "json"}
    /\ localStorage' =
         [localStorage EXCEPT
            ![REVIEWS_KEY] =
                JsonItem(IF overwrite THEN reviews
                         ELSE localStorage[REVIEWS_KEY].val \o reviews)]
    /\ lastCall' = Call("importData", "", "", 0, "returned")
    /\ UNCHANGED <<now, nCalls, tally, goodRun, tabs>>

(***************************************************************************)
(* Damage to the store from outside the service: localStorage is shared   *)
(* by every script of the origin and can be edited or cleared by the user. *)
(* The item under `key` is removed ("null") or becomes malformed.          *)
(***************************************************************************)
Corrupt(key, kind) ==
    /\ localStorage' =
         [localStorage EXCEPT
            ![key] = IF kind = "null" THEN NullItem
                     ELSE [kind |-> kind, val |-> localStorage[key].val]]
    /\ lastCall' = Call("corrupt", "", "", 0, "returned")
    /\ UNCHANGED <<now, nCalls, tally, goodRun, tabs>>

(***************************************************************************)
(* The clock.                                                              *)
(***************************************************************************)
Tick ==
    /\ now' = now + ClockStep
    /\ lastCall' = Call("tick", "", "", 0, "returned")
    /\ UNCHANGED <<localStorage, nCalls, tally, goodRun, tabs>>

(***************************************************************************)
(* The queries.  Each reads the store and the clock and writes nothing.    *)
(* A flashcard is represented by its id.                                   *)
(***************************************************************************)
\* Array.prototype.sort with a comparator that is a consistent ordering;
\* cmp[i][j] is the comparator's result on (s[i], s[j]).  The sort is
\* stable, so an element goes after those that compare lower and after
\* the earlier ones that compare equal.
Sort(s, cmp) ==
    LET rank(i) ==
            1 + Cardinality({j \in 1 .. Len(s) :
                                \/ cmp[j][i] < 0
                                \/ cmp[j][i] = 0 /\ j < i})
    IN  [k \in 1 .. Len(s) |-> s[CHOOSE i \in 1 .. Len(s) : rank(i) = k]]

\* IsDue with nextReview < now in place of nextReview <= now.
IsDueStrict(review, t) == review = <<>> \/ review[1].nextReview < t

\* The condition of getDueCards' loop.
IsDue(review, t) == review = <<>> \/ review[1].nextReview <= t

\* The object getDueCards pushes for a due card.
DueEntry(cardId, review, t) ==
    [id |-> cardId,
     lastReview |-> IF review /= <<>> THEN <<review[1].reviewDate>> ELSE <<>>,
     nextReview |-> IF review /= <<>> THEN review[1].nextReview ELSE t,
     interval |-> IF review /= <<>> THEN review[1].interval ELSE 0,
     repetitions |-> IF review /= <<>> THEN review[1].repetitions ELSE 0]

\* DueCompare without the two lines that put new cards first.
DueCompareNoPriority(a, b) == a.nextReview - b.nextReview

\* DueCompare with the due dates compared the other way round.
DueCompareLatestFirst(a, b) ==
    IF a.lastReview = <<>> /\ b.lastReview /= <<>> THEN -1
    ELSE IF a.lastReview /= <<>> /\ b.lastReview = <<>> THEN 1
    ELSE b.nextReview - a.nextReview

\* The comparator of getDueCards: new cards first, then by due date.
DueCompare(a, b) ==
    IF a.lastReview = <<>> /\ b.lastReview /= <<>> THEN -1
    ELSE IF a.lastReview /= <<>> /\ b.lastReview = <<>> THEN 1
    ELSE a.nextReview - b.nextReview

\* getDueCards over the parsed reviews and the clock reading it takes.
DueCardsAt(reviews, t, studyPackId, flashcards) ==
    LET due == SelectSeq(flashcards,
                         LAMBDA c : IsDue(ReviewOf(reviews, studyPackId, c), t))
        dueCards == [i \in 1 .. Len(due) |->
                        DueEntry(due[i], ReviewOf(reviews, studyPackId, due[i]), t)]
    IN  Sort(dueCards,
             [i \in 1 .. Len(due) |->
                 [j \in 1 .. Len(due) |-> DueCompare(dueCards[i], dueCards[j])]])

getDueCards(studyPackId, flashcards) ==
    DueCardsAt(getReviews, now, studyPackId, flashcards)

\* IsUpcoming with nextReview >= now in place of nextReview > now.
IsUpcomingInclusive(review, t) == review /= <<>> /\ review[1].nextReview >= t

\* The condition of getUpcomingCards' loop.
IsUpcoming(review, t) == review /= <<>> /\ review[1].nextReview > t

\* UpcomingCompare the other way round.
UpcomingCompareDescending(a, b) == b.nextReview - a.nextReview

UpcomingCompare(a, b) == a.nextReview - b.nextReview

getUpcomingCards(studyPackId, flashcards, limit) ==
    LET reviews == getReviews
        up == SelectSeq(flashcards,
                        LAMBDA c : IsUpcoming(ReviewOf(reviews, studyPackId, c), now))
        upcomingCards ==
            [i \in 1 .. Len(up) |->
                LET review == ReviewOf(reviews, studyPackId, up[i])
                IN  [id |-> up[i],
                     nextReview |-> review[1].nextReview,
                     interval |-> review[1].interval]]
    IN  Slice(Sort(upcomingCards,
                   [i \in 1 .. Len(up) |->
                       [j \in 1 .. Len(up) |->
                           UpcomingCompare(upcomingCards[i], upcomingCards[j])]]),
              limit)

\* The sessions of a deck, latest first.
SessionCompare(a, b) == b.date - a.date

\* The loop of calculateStreak from the i-th session on.
RECURSIVE StreakLoop(_, _, _, _)
StreakLoop(sessions, i, streak, currentDate) ==
    IF i > Len(sessions) THEN streak
    ELSE LET sessionDate == sessions[i].date
             daysDiff == (currentDate - sessionDate) \div HoursPerDay
         IN  IF daysDiff = streak \/ (streak = 0 /\ daysDiff <= 1)
             THEN StreakLoop(sessions, i + 1, streak + 1, sessionDate)
             ELSE streak

calculateStreak(studyPackId) ==
    LET ofDeck == SelectSeq(getSessions, LAMBDA s : s.studyPackId = studyPackId)
        sessions ==
            Sort(ofDeck,
                 [i \in 1 .. Len(ofDeck) |->
                     [j \in 1 .. Len(ofDeck) |->
                         SessionCompare(ofDeck[i], ofDeck[j])]])
    IN  IF Len(sessions) = 0 THEN 0
        ELSE StreakLoop(sessions, 1, 0, StartOfDay(now))

getTodayStats(studyPackId) ==
    LET today == StartOfDay(now)
        tomorrow == today + HoursPerDay
        todayReviews ==
            SelectSeq(getReviews,
                      LAMBDA r : /\ r.studyPackId = studyPackId
                                 /\ r.reviewDate >= today
                                 /\ r.reviewDate < tomorrow)
        newCards == Len(SelectSeq(todayReviews, LAMBDA r : r.repetitions = 1))
        good == Len(SelectSeq(todayReviews, LAMBDA r : r.quality >= 3))
    IN  [reviewed |-> Len(todayReviews),
         learned |-> newCards,
         accuracy |-> IF Len(todayReviews) > 0
                      THEN Frac(good, Len(todayReviews)) ELSE Frac(0, 1),
         streak |-> calculateStreak(studyPackId)]

(***************************************************************************)
(* The specifications.  Each bounds the clock and the number of            *)
(* recordReview calls, and draws the arguments of the calls from the sets  *)
(* its claims need.                                                        *)
(***************************************************************************)
Init ==
    /\ localStorage = [k \in Keys |-> NullItem]
    /\ now = 0
    /\ nCalls = 0
    /\ lastCall = Call("init", "", "", 0, "returned")
    /\ tally = <<>>
    /\ goodRun = <<>>
    /\ tabs = [tab \in Tabs |-> IdleTab]

\* The clock has made fewer than `ticks` steps.
Before(ticks) == now < ticks * ClockStep

\* The store and its queries: two decks of two cards, reviewed "again"
\* (due after a day) or "easy" (due after eight or more), every write
\* succeeding.
Next ==
    \/ \E d \in Decks, c \in Cards, q \in {1, 4} :
          nCalls < MaxCalls /\ RecordReview(d, c, q)
    \/ \E d \in Decks : DeleteData(d)
    \/ Before(MaxTicks) /\ Tick

Spec == Init /\ [][Next]_vars

\* The schedule of one card under every sequence of qualities.
NextSched ==
    \/ \E q \in Qualities : nCalls < MaxReviews /\ RecordReview("d1", "c1", q)
    \/ DeleteData("d1")
    \/ Before(MaxTicks) /\ Tick

SpecSched == Init /\ [][NextSched]_vars

\* The daily session records of two decks over several days.
NextStreak ==
    \/ \E d \in Decks, q \in {2, 3} :
          nCalls < MaxStreakCalls /\ RecordReview(d, "c1", q)
    \/ \E d \in Decks : DeleteData(d)
    \/ Before(MaxStreakTicks) /\ Tick

SpecStreak == Init /\ [][NextStreak]_vars

\* The store with writes that may fail: localStorage.setItem throws when
\* the quota is exceeded.
NextFail ==
    \/ \E d \in Decks, q \in {1, 3} :
          nCalls < MaxCalls /\ RecordReview(d, "c1", q)
    \/ \E d \in Decks, q \in {1, 3} :
          nCalls < MaxCalls /\ RecordReviewFailsFirstWrite(d, "c1", q)
    \/ \E d \in Decks, q \in {1, 3} :
          nCalls < MaxCalls /\ RecordReviewFailsSecondWrite(d, "c1", q)
    \/ \E d \in Decks : DeleteData(d)
    \/ \E d \in Decks : DeleteDataFailsFirstWrite(d)
    \/ \E d \in Decks : DeleteDataFailsSecondWrite(d)
    \/ Before(MaxTicks) /\ Tick

SpecFail == Init /\ [][NextFail]_vars

\* The review records a backup file may hold for the card: any
\* repetition count with the first or a later interval and the initial
\* or the lowest ease factor, reviewed at hour 0.
PriorReviews ==
    {[cardId |-> "c1", studyPackId |-> "d1", quality |-> 3, reviewDate |-> 0,
      interval |-> i, easeFactor |-> e, repetitions |-> n,
      nextReview |-> i * HoursPerDay] :
        n \in 0 .. MaxPriorRepetitions,
        e \in {EaseFloor, InitialEase},
        i \in {FirstInterval, SecondInterval}}

\* One SM-2 step from every prior state of a card: a backup with one
\* review record is restored into the empty store, then the card is
\* reviewed.
NextStep ==
    \/ \E r \in PriorReviews, overwrite \in BOOLEAN :
          /\ localStorage[REVIEWS_KEY].kind = "null"
          /\ ImportReviews(<<r>>, overwrite)
    \/ \E q \in Qualities : nCalls < MaxCalls /\ RecordReview("d1", "c1", q)
    \/ Before(MaxTicks) /\ Tick

SpecStep == Init /\ [][NextStep]_vars

\* The queries over a store that is damaged between the calls: one deck
\* of two cards, reviewed "easy" (not due for eight days).
NextCorrupt ==
    \/ \E c \in Cards :
          nCalls < MaxCalls /\ RecordReview("d1", c, 4)
    \/ DeleteData("d1")
    \/ \E key \in Keys, kind \in MalformedKinds \cup {"null"} :
          Corrupt(key, kind)
    \/ Before(MaxTicks) /\ Tick

SpecCorrupt == Init /\ [][NextCorrupt]_vars

\* Calls with a quality outside 1..4 among valid ones: the parameter is
\* a number and recordReview does not test it.
NextInvalid ==
    \/ \E c \in Cards, q \in {0, 3, 5} :
          nCalls < MaxCalls /\ RecordReview("d1", c, q)
    \/ DeleteData("d1")
    \/ Before(MaxTicks) /\ Tick

SpecInvalid == Init /\ [][NextInvalid]_vars

\* Two tabs, each reviewing its own card of the deck, so the calls for
\* one (deck, card) pair never overlap.
CardOfTab == [t1 |-> "c1", t2 |-> "c2"]

NextTabs ==
    \/ \E tab \in Tabs, q \in {1, 4} :
          nCalls < MaxCalls /\ TabGetReviews(tab, "d1", CardOfTab[tab], q)
    \/ \E tab \in Tabs : TabSetReviews(tab)
    \/ \E tab \in Tabs : TabGetSessions(tab)
    \/ \E tab \in Tabs : TabSetSessions(tab)
    \/ Before(MaxTicks) /\ Tick

SpecTabs == Init /\ [][NextTabs]_vars

(***************************************************************************)
(* Vocabulary of the properties.                                           *)
(***************************************************************************)
Range(s) == {s[i] : i \in 1 .. Len(s)}

\* The card lists handed to the queries: the cards of a deck, each once,
\* in any order.
CardLists ==
    {s \in UNION {[1 .. n -> Cards] : n \in 0 .. Cardinality(Cards)} :
        \A i, j \in 1 .. Len(s) : i /= j => s[i] /= s[j]}

\* The limits handed to getUpcomingCards: small ones and the default.
Limits == {1, 2, DefaultLimit}

Ids(entries) == [i \in 1 .. Len(entries) |-> entries[i].id]

IsPrefix(s, t) == Len(s) <= Len(t) /\ \A i \in 1 .. Len(s) : s[i] = t[i]

\* The stored records of a card in a deck, as a set.
StoredFor(d, c) == {r \in Range(getReviews) : r.cardId = c /\ r.studyPackId = d}

CountFor(d, c) ==
    Cardinality({i \in 1 .. Len(getReviews) :
                    getReviews[i].cardId = c /\ getReviews[i].studyPackId = d})

Returned(op) == lastCall.op = op /\ lastCall.outcome = "returned"

(***************************************************************************)
(* C1.  The store never holds two review records of the same card and      *)
(* deck, and when recordReview(D, c, q) has returned it holds exactly one  *)
(* record of (c, D).                                                       *)
(***************************************************************************)
C1_OneReviewPerCard ==
    /\ \A d \in Decks, c \in Cards : CountFor(d, c) <= 1
    /\ Returned("recordReview")
         => CountFor(lastCall.studyPackId, lastCall.cardId) = 1

\* A second review of a card has just replaced the record of the first.
C1_Witness ==
    /\ Returned("recordReview")
    /\ nCalls = 2
    /\ Len(getReviews) = 1
    /\ getReviews[1].easeFactor /= InitialEase

(***************************************************************************)
(* C2.  Every stored review record has an ease factor of at least 1.3,     *)
(* whatever the sequence of qualities 1..4.                                *)
(***************************************************************************)
C2_EaseFactorFloor ==
    \A i \in 1 .. Len(getReviews) : getReviews[i].easeFactor >= EaseFloor

\* The fourth "again" in a row: 2.5, 1.96, 1.42, then 0.88 raised to 1.3.
C2_Witness ==
    /\ Returned("recordReview")
    /\ \E i \in 1 .. Len(getReviews) : getReviews[i].easeFactor = EaseFloor

(***************************************************************************)
(* C3.  getDueCards(D, C) returns, each once, exactly the cards of C that  *)
(* have no review record for D or whose stored nextReview is <= now,       *)
(* however long ago that nextReview was.                                   *)
(***************************************************************************)
C3_DueCardsExact ==
    \A d \in Decks, C \in CardLists :
        LET ids == Ids(getDueCards(d, C))
        IN  /\ Range(ids) =
                 {c \in Range(C) :
                     \/ StoredFor(d, c) = {}
                     \/ \E r \in StoredFor(d, c) : r.nextReview <= now}
            /\ Cardinality(Range(ids)) = Len(ids)

\* One card of the deck is overdue and returned, the other is not yet due
\* and left out.
C3_Witness ==
    \E d \in Decks :
        /\ \E r \in StoredFor(d, "c1") : r.nextReview < now
        /\ \E r \in StoredFor(d, "c2") : r.nextReview > now
        /\ Ids(getDueCards(d, <<"c2", "c1">>)) = <<"c1">>

(***************************************************************************)
(* C4.  In the list getDueCards returns, every card without a prior review *)
(* precedes every card with one, and the cards with a prior review are in  *)
(* ascending order of nextReview.                                          *)
(***************************************************************************)
C4_DueCardsOrder ==
    \A d \in Decks, C \in CardLists :
        LET due == getDueCards(d, C)
        IN  \A i, j \in 1 .. Len(due) :
                i < j =>
                    /\ ~(due[i].lastReview /= <<>> /\ due[j].lastReview = <<>>)
                    /\ (due[i].lastReview /= <<>> /\ due[j].lastReview /= <<>>)
                          => due[i].nextReview <= due[j].nextReview

\* Two reviewed cards are due at different times and the list handed in
\* has the later one first: the result has them the other way round.
C4_Witness ==
    \E d \in Decks, C \in CardLists :
        LET due == getDueCards(d, C)
        IN  /\ Len(due) = 2
            /\ due[1].lastReview /= <<>>
            /\ due[1].nextReview < due[2].nextReview
            /\ C[1] = due[2].id

(***************************************************************************)
(* C5.  At one instant, for every deck D, card list C and limit: no card   *)
(* is in both getDueCards(D, C) and getUpcomingCards(D, C, limit), a       *)
(* never-reviewed card is in the due result only, and - when limit is at   *)
(* least the number of cards of C that are not due - every card of C is    *)
(* in one of the two results.                                              *)
(***************************************************************************)
NotDue(d, C) ==
    {c \in Range(C) : \E r \in StoredFor(d, c) : r.nextReview > now}

C5_DueUpcomingPartition ==
    \A d \in Decks, C \in CardLists :
        LET due == Range(Ids(getDueCards(d, C)))
            new == {c \in Range(C) : StoredFor(d, c) = {}}
            ahead == Cardinality(NotDue(d, C))
        IN  /\ new \subseteq due
            /\ \A limit \in Limits :
                  LET upcoming == Range(Ids(getUpcomingCards(d, C, limit)))
                  IN  /\ due \cap upcoming = {}
                      /\ new \cap upcoming = {}
                      /\ limit >= ahead => due \cup upcoming = Range(C)

\* A deck with one card due again and the other still ahead.
C5_Witness ==
    \E d \in Decks :
        /\ Ids(getDueCards(d, <<"c1", "c2">>)) = <<"c1">>
        /\ Ids(getUpcomingCards(d, <<"c1", "c2">>, DefaultLimit)) = <<"c2">>
        /\ StoredFor(d, "c1") /= {}

\* C5 as stated: the two results cover C for every limit.
C5_Original ==
    \A d \in Decks, C \in CardLists, limit \in Limits :
        LET due == Range(Ids(getDueCards(d, C)))
            upcoming == Range(Ids(getUpcomingCards(d, C, limit)))
        IN  /\ due \cap upcoming = {}
            /\ due \cup upcoming = Range(C)
            /\ \A c \in Range(C) : StoredFor(d, c) = {} => c \notin upcoming

(***************************************************************************)
(* C6.  getUpcomingCards(D, C, limit) returns only cards of C whose review *)
(* record for D has nextReview > now, in ascending order of nextReview,    *)
(* and returns the min(limit, number of such cards) earliest of them.      *)
(***************************************************************************)
C6_UpcomingCards ==
    \A d \in Decks, C \in CardLists, limit \in Limits :
        LET up == getUpcomingCards(d, C, limit)
            ahead == NotDue(d, C)
            n == Cardinality(ahead)
        IN  /\ Range(Ids(up)) \subseteq ahead
            /\ Len(up) = IF limit < n THEN limit ELSE n
            /\ Cardinality(Range(Ids(up))) = Len(up)
            /\ \A i \in 1 .. Len(up) :
                  \E r \in StoredFor(d, up[i].id) : r.nextReview = up[i].nextReview
            /\ \A i, j \in 1 .. Len(up) :
                  i < j => up[i].nextReview <= up[j].nextReview
            /\ \A c \in ahead \ Range(Ids(up)) :
                  \A r \in StoredFor(d, c), i \in 1 .. Len(up) :
                      up[i].nextReview <= r.nextReview

\* Two cards are ahead, the list handed in has the later one first, and
\* limit 1 returns the earlier one alone.
C6_Witness ==
    \E d \in Decks :
        /\ \E r1 \in StoredFor(d, "c1"), r2 \in StoredFor(d, "c2") :
              now < r2.nextReview /\ r2.nextReview < r1.nextReview
        /\ Ids(getUpcomingCards(d, <<"c1", "c2">>, 1)) = <<"c2">>
        /\ Ids(getUpcomingCards(d, <<"c1", "c2">>, DefaultLimit)) = <<"c2", "c1">>

(***************************************************************************)
(* C7.  While no recordReview or deleteData call is made, the list of      *)
(* cards getDueCards(D, C) returns only grows at its end as the clock      *)
(* moves: an earlier result is a prefix of a later one, and the two are    *)
(* the same list when no card of C reached its nextReview in between.      *)
(***************************************************************************)
NoWriteStep == lastCall'.op \notin {"recordReview", "deleteData"}

BecomesDue(d, C) ==
    \E c \in Range(C) :
        \E r \in StoredFor(d, c) : now < r.nextReview /\ r.nextReview <= now'

\* What getDueCards(d, C) returns before and after a step.
DueBefore(d, C) == Ids(getDueCards(d, C))
DueAfter(d, C) ==
    Ids(DueCardsAt(ParseItem(localStorage'[REVIEWS_KEY]), now', d, C))

C7_DueCardsStable ==
    [][NoWriteStep =>
          \A d \in Decks, C \in CardLists :
              /\ IsPrefix(DueBefore(d, C), DueAfter(d, C))
              /\ ~BecomesDue(d, C) => DueAfter(d, C) = DueBefore(d, C)]_vars

\* The clock has just reached the nextReview of one card of a deck whose
\* other card was due already.
C7_Witness ==
    /\ lastCall.op = "tick"
    /\ \E d \in Decks :
          \E r1 \in StoredFor(d, "c1"), r2 \in StoredFor(d, "c2") :
              /\ r1.nextReview <= now - ClockStep
              /\ now - ClockStep < r2.nextReview /\ r2.nextReview <= now
              /\ Ids(getDueCards(d, <<"c2", "c1">>)) = <<"c1", "c2">>

\* C7 as stated: without a write in between, two calls return the same
\* cards in the same order.
C7_Original ==
    [][NoWriteStep =>
          \A d \in Decks, C \in CardLists :
              DueAfter(d, C) = DueBefore(d, C)]_vars

(***************************************************************************)
(* C8.  A recordReview or deleteData call that ends with a store write     *)
(* failure leaves the store (review records and session records) as it     *)
(* was before the call.                                                    *)
(***************************************************************************)
C8_FailedCallChangesNothing ==
    [][lastCall'.outcome = "threw" => localStorage' = localStorage]_vars

(***************************************************************************)
(* C9.  calculateStreak(D) is the number of consecutive calendar days with *)
(* a session record of D, counted back from today if today has one and     *)
(* else from yesterday, up to the first day without one.                   *)
(***************************************************************************)
Today == now \div HoursPerDay

SessionDays(d) ==
    {s.date \div HoursPerDay : s \in {x \in Range(getSessions) : x.studyPackId = d}}

RECURSIVE RunLength(_, _)
RunLength(days, day) ==
    IF day \in days THEN 1 + RunLength(days, day - 1) ELSE 0

ConsecutiveDays(d) ==
    IF Today \in SessionDays(d) THEN RunLength(SessionDays(d), Today)
    ELSE RunLength(SessionDays(d), Today - 1)

C9_StreakCountsConsecutiveDays ==
    \A d \in Decks : calculateStreak(d) = ConsecutiveDays(d)

(***************************************************************************)
(* C10.  With session records of D on today, yesterday and the day before  *)
(* and none on the day before that, calculateStreak(D) is 3.               *)
(***************************************************************************)
C10_ThreeDayStreak ==
    \A d \in Decks :
        ({Today, Today - 1, Today - 2} \subseteq SessionDays(d)
            /\ Today - 3 \notin SessionDays(d))
          => calculateStreak(d) = 3

(***************************************************************************)
(* C11.  With session records of D on today and two days ago only,         *)
(* calculateStreak(D) is 1; and no counted session day lies after a gap:   *)
(* every day between a counted day and the latest session day of D is a    *)
(* session day of D too.                                                   *)
(***************************************************************************)
\* The session days calculateStreak(d) counted: the loop walks the
\* sessions latest first and the streak is the number it walked.
CountedDays(d) ==
    {day \in SessionDays(d) :
        Cardinality({x \in SessionDays(d) : x > day}) < calculateStreak(d)}

C11_NoDayAfterGapCounted ==
    \A d \in Decks :
        /\ SessionDays(d) = {Today, Today - 2} => calculateStreak(d) = 1
        /\ \A day \in CountedDays(d), x \in SessionDays(d) :
              \A between \in day .. x : between \in SessionDays(d)

(***************************************************************************)
(* C12.  For a card with no prior review, recordReview with quality 4      *)
(* stores repetitions 1, ease factor 2.5 and interval round(6 * 1.3) = 8   *)
(* days, with nextReview exactly 8 * 24 hours after reviewDate.            *)
(***************************************************************************)
\* The step is a recordReview call of the given quality that returned.
Reviewed(quality) ==
    /\ lastCall'.op = "recordReview"
    /\ lastCall'.outcome = "returned"
    /\ lastCall'.quality = quality

\* The record of the reviewed card before and after the step.
RecordBefore == ReviewOf(getReviews, lastCall'.studyPackId, lastCall'.cardId)
RecordAfter ==
    ReviewOf(ParseItem(localStorage'[REVIEWS_KEY]),
             lastCall'.studyPackId, lastCall'.cardId)

C12_FirstEasyReview ==
    [][(Reviewed(4) /\ RecordBefore = <<>>) =>
          /\ RecordAfter /= <<>>
          /\ RecordAfter[1].repetitions = 1
          /\ RecordAfter[1].easeFactor = 250
          /\ RecordAfter[1].interval = 8
          /\ RecordAfter[1].reviewDate = now
          /\ RecordAfter[1].nextReview = RecordAfter[1].reviewDate + 8 * 24]_vars

\* The first review of the card, with quality 4, made inside a day.
C12_Witness ==
    /\ Returned("recordReview")
    /\ lastCall.quality = 4
    /\ nCalls = 1
    /\ now = ClockStep
    /\ ReviewOf(getReviews, "d1", "c1") /= <<>>
    /\ ReviewOf(getReviews, "d1", "c1")[1].nextReview = ClockStep + 8 * 24

(***************************************************************************)
(* C13.  For a card whose stored record has repetitions 2, ease factor 2.5 *)
(* and interval 6, recordReview with quality 3 stores repetitions 3, the   *)
(* ease factor 2.5 - 0.14 = 2.36 and the interval round(6 * 2.36) = 14     *)
(* days: the old interval is multiplied by the new ease factor.            *)
(***************************************************************************)
SecondRepetitionAtInitialEase ==
    /\ RecordBefore /= <<>>
    /\ RecordBefore[1].repetitions = 2
    /\ RecordBefore[1].easeFactor = 250
    /\ RecordBefore[1].interval = 6

C13_GoodReviewInterval ==
    [][(Reviewed(3) /\ SecondRepetitionAtInitialEase) =>
          /\ RecordAfter /= <<>>
          /\ RecordAfter[1].repetitions = 3
          /\ RecordAfter[1].easeFactor = 236
          /\ RecordAfter[1].interval = 14]_vars

\* The restored card (repetitions 2, ease 2.5, interval 6) has just been
\* reviewed with quality 3.
C13_Witness ==
    /\ Returned("recordReview")
    /\ lastCall.quality = 3
    /\ nCalls = 1
    /\ ReviewOf(getReviews, "d1", "c1") /= <<>>
    /\ ReviewOf(getReviews, "d1", "c1")[1].repetitions = 3
    /\ ReviewOf(getReviews, "d1", "c1")[1].easeFactor = 236
    /\ ReviewOf(getReviews, "d1", "c1")[1].interval = 14

\* C13 as stated: the new interval is round(6 * 2.5) = 15 days.
C13_Original ==
    [][(Reviewed(3) /\ SecondRepetitionAtInitialEase) =>
          /\ RecordAfter /= <<>>
          /\ RecordAfter[1].interval = 15]_vars

(***************************************************************************)
(* C14.  Whatever record the card had before (none, or one with any        *)
(* repetition count, interval and ease factor), recordReview with quality  *)
(* 1 stores repetitions 0 and an interval of 1 day.                        *)
(***************************************************************************)
C14_AgainResets ==
    [][Reviewed(1) =>
          /\ RecordAfter /= <<>>
          /\ RecordAfter[1].repetitions = 0
          /\ RecordAfter[1].interval = 1
          /\ RecordAfter[1].nextReview = now + 24]_vars

\* A restored card (its ease factor was the initial 2.5, now lowered by
\* 0.54) has just been reviewed with quality 1.
C14_Witness ==
    /\ Returned("recordReview")
    /\ lastCall.quality = 1
    /\ nCalls = 1
    /\ ReviewOf(getReviews, "d1", "c1") /= <<>>
    /\ ReviewOf(getReviews, "d1", "c1")[1].easeFactor = 196
    /\ ReviewOf(getReviews, "d1", "c1")[1].repetitions = 0

(***************************************************************************)
(* C15.  From every record the card can have after a sequence of reviews   *)
(* and deletions (or none), the interval recordReview stores with quality  *)
(* 1 is strictly smaller than the one it stores with quality 3, and the    *)
(* one it stores with quality 4 strictly larger than that.  The states are *)
(* those from which the run can make a further call.                       *)
(***************************************************************************)
\* The interval recordReview("d1", "c1", quality) would store now.
IntervalWith(quality) ==
    NewReview(ReviewOf(getReviews, "d1", "c1"), "d1", "c1", quality, now).interval

C15_IntervalMonotoneInQuality ==
    nCalls < MaxReviews =>
        /\ IntervalWith(1) < IntervalWith(3)
        /\ IntervalWith(3) < IntervalWith(4)

\* A card reviewed twice with success: the third interval is the old one
\* times the ease factor, shrunk to 1 by "again" and stretched by "easy".
C15_Witness ==
    /\ nCalls = 2
    /\ ReviewOf(getReviews, "d1", "c1") /= <<>>
    /\ ReviewOf(getReviews, "d1", "c1")[1].repetitions = 2
    /\ IntervalWith(1) = 1
    /\ IntervalWith(3) > SecondInterval
    /\ IntervalWith(4) > IntervalWith(3) + 1

(***************************************************************************)
(* C16.  When deleteData(D) has returned, no review record and no session  *)
(* record of D is in the store.  A deleteData(D) call made when the store  *)
(* holds no record of D returns and leaves the records of the store as     *)
(* they were, and one made right after another deleteData(D) leaves the    *)
(* two stored items themselves as they were.                               *)
(***************************************************************************)
HasDataOf(reviews, sessions, d) ==
    \/ \E i \in 1 .. Len(reviews) : reviews[i].studyPackId = d
    \/ \E i \in 1 .. Len(sessions) : sessions[i].studyPackId = d

Deleted(d) ==
    /\ lastCall'.op = "deleteData"
    /\ lastCall'.outcome = "returned"
    /\ lastCall'.studyPackId = d

C16_DeleteDataIdempotent ==
    [][\A d \in Decks :
          Deleted(d) =>
              LET reviewsAfter == ParseItem(localStorage'[REVIEWS_KEY])
                  sessionsAfter == ParseItem(localStorage'[SESSIONS_KEY])
              IN  /\ ~HasDataOf(reviewsAfter, sessionsAfter, d)
                  /\ ~HasDataOf(getReviews, getSessions, d) =>
                        /\ reviewsAfter = getReviews
                        /\ sessionsAfter = getSessions
                  /\ (Returned("deleteData") /\ lastCall.studyPackId = d) =>
                        localStorage' = localStorage]_vars

\* deleteData("d1") has returned in a store where "d1" was reviewed once
\* today: the record that is left is the other deck's.
C16_Witness ==
    /\ Returned("deleteData")
    /\ lastCall.studyPackId = "d1"
    /\ nCalls = 2
    /\ now = 0
    /\ Len(getReviews) = 1
    /\ getReviews[1].studyPackId = "d2"
    /\ Len(getSessions) = 1
    /\ getSessions[1].cardsReviewed = 1

(***************************************************************************)
(* C17.  When the stored review item is absent or malformed, getDueCards   *)
(* returns every card of the list as never reviewed, getUpcomingCards      *)
(* returns nothing and getTodayStats reports no review; when the stored    *)
(* session item is absent or malformed, the streak of getTodayStats is 0.  *)
(* None of the queries throws.                                             *)
(***************************************************************************)
\* The entry getDueCards returns for a card without review record.
NeverReviewed(c) ==
    [id |-> c, lastReview |-> <<>>, nextReview |-> now,
     interval |-> 0, repetitions |-> 0]

C17_MalformedStoreIsEmptyHistory ==
    \A d \in Decks :
        /\ localStorage[REVIEWS_KEY].kind /= "json" =>
              /\ \A C \in CardLists :
                    /\ getDueCards(d, C) =
                          [i \in 1 .. Len(C) |-> NeverReviewed(C[i])]
                    /\ \A limit \in Limits : getUpcomingCards(d, C, limit) = <<>>
              /\ getTodayStats(d).reviewed = 0
              /\ getTodayStats(d).learned = 0
        /\ localStorage[SESSIONS_KEY].kind /= "json" =>
              /\ getTodayStats(d).streak = 0
              /\ calculateStreak(d) = 0

\* Both items held today's records of two cards when they were damaged:
\* the queries answer as on an empty history.
C17_Witness ==
    /\ lastCall.op = "corrupt"
    /\ localStorage[REVIEWS_KEY].kind = "text"
    /\ Len(localStorage[REVIEWS_KEY].val) = 2
    /\ localStorage[SESSIONS_KEY].kind = "nullElement"
    /\ Len(localStorage[SESSIONS_KEY].val) = 1
    /\ now = 0
    /\ Ids(getDueCards("d1", <<"c2", "c1">>)) = <<"c2", "c1">>
    /\ getTodayStats("d1").reviewed = 0
    /\ getTodayStats("d1").streak = 0

(***************************************************************************)
(* C18.  A recordReview call with a quality outside 1..4 ends with an      *)
(* error and leaves the review records and the session records as they     *)
(* were.                                                                   *)
(***************************************************************************)
C18_InvalidQualityRejected ==
    [][(lastCall'.op = "recordReview" /\ lastCall'.quality \notin Qualities) =>
          /\ lastCall'.outcome = "threw"
          /\ localStorage' = localStorage]_vars

(***************************************************************************)
(* C19.  After any sequence of recordReview and deleteData calls, with the *)
(* clock moving across days, the session collection holds at most one      *)
(* record per deck and calendar day: a review on a day that has a record   *)
(* of the deck updates that record.                                        *)
(***************************************************************************)
SameDeckAndDay(a, b) ==
    /\ a.studyPackId = b.studyPackId
    /\ a.date \div HoursPerDay = b.date \div HoursPerDay

C19_OneSessionPerDeckAndDay ==
    \A i, j \in 1 .. Len(getSessions) :
        SameDeckAndDay(getSessions[i], getSessions[j]) => i = j

\* Two reviews of a deck on its second day, the last one at noon, have
\* gone into one record next to the record of the first day.
C19_Witness ==
    /\ Returned("recordReview")
    /\ now = HoursPerDay + ClockStep
    /\ Len(getSessions) = 2
    /\ getSessions[1].studyPackId = getSessions[2].studyPackId
    /\ getSessions[1].date = 0
    /\ getSessions[2].date = HoursPerDay
    /\ getSessions[2].cardsReviewed = 2

(***************************************************************************)
(* C20.  For every deck and day, the day's session record has              *)
(* cardsReviewed equal to the number of recordReview calls made for the    *)
(* deck that day, and averageQuality * cardsReviewed equal to the sum of   *)
(* the qualities of those calls; the calls are those since the deck's data *)
(* was last deleted, and a day without such a call has no record.          *)
(***************************************************************************)
SessionsOf(d, day) ==
    {i \in 1 .. Len(getSessions) :
        /\ getSessions[i].studyPackId = d
        /\ getSessions[i].date \div HoursPerDay = day}

C20_RunningMeanIsMean ==
    /\ \A key \in DOMAIN tally :
          \E i \in SessionsOf(key[1], key[2]) :
              LET s == getSessions[i]
              IN  /\ s.cardsReviewed = tally[key].count
                  /\ s.averageQuality.num * s.cardsReviewed
                       = tally[key].sum * s.averageQuality.den
    /\ \A i \in 1 .. Len(getSessions) :
          <<getSessions[i].studyPackId, getSessions[i].date \div HoursPerDay>>
              \in DOMAIN tally

\* Three reviews of a deck on one day with qualities 2, 2 and 3 (or in
\* another order): the record has count 3 and mean 7/3.
C20_Witness ==
    /\ Returned("recordReview")
    /\ \E i \in 1 .. Len(getSessions) :
          /\ getSessions[i].cardsReviewed = 3
          /\ getSessions[i].averageQuality = [num |-> 7, den |-> 3]
          /\ tally[<<getSessions[i].studyPackId,
                     getSessions[i].date \div HoursPerDay>>]
               = [count |-> 3, sum |-> 7, good |-> 1]

(***************************************************************************)
(* C21.  recordReview stores the ease factor 2.5 when the card has no      *)
(* record for the deck, whatever the quality, and otherwise                *)
(* max(1.3, oldEase + (0.1 - (5 - q) * (0.08 + (5 - q) * 0.02))): the old  *)
(* ease lowered by 0.54, 0.32, 0.14 or 0 for quality 1, 2, 3 or 4, and not *)
(* below 1.3.                                                              *)
(***************************************************************************)
\* The change of the ease factor by quality, in hundredths.
EaseChange == (1 :> -54) @@ (2 :> -32) @@ (3 :> -14) @@ (4 :> 0)

C21_EaseFactorUpdate ==
    [][\A q \in Qualities :
          Reviewed(q) =>
              /\ RecordAfter /= <<>>
              /\ RecordAfter[1].easeFactor =
                    IF RecordBefore = <<>> THEN 250
                    ELSE IF RecordBefore[1].easeFactor + EaseChange[q] < 130
                         THEN 130
                         ELSE RecordBefore[1].easeFactor + EaseChange[q]]_vars

\* A second review, with quality 2, has lowered the ease from 2.5 to 2.18.
C21_Witness ==
    /\ Returned("recordReview")
    /\ lastCall.quality = 2
    /\ nCalls = 2
    /\ ReviewOf(getReviews, "d1", "c1") /= <<>>
    /\ ReviewOf(getReviews, "d1", "c1")[1].easeFactor = 218

(***************************************************************************)
(* C22.  recordReview stores repetitions 0 when the quality is below 3 and *)
(* otherwise the repetitions of the card's record plus 1 (1 without a      *)
(* record).  So every stored record has repetitions 0 exactly when its     *)
(* quality is below 3, and its repetitions is the number of reviews of the *)
(* card with quality >= 3 since the last one with a lower quality (or the  *)
(* last deletion of the deck's data).                                      *)
(***************************************************************************)
RepetitionsStep ==
    \A q \in Qualities :
        Reviewed(q) =>
            /\ RecordAfter /= <<>>
            /\ RecordAfter[1].repetitions =
                  IF q < 3 THEN 0
                  ELSE IF RecordBefore = <<>> THEN 1
                  ELSE RecordBefore[1].repetitions + 1

RepetitionsCountGoodRun ==
    \A i \in 1 .. Len(getReviews) :
        LET r == getReviews[i]
            key == <<r.studyPackId, r.cardId>>
        IN  /\ r.repetitions = 0 <=> r.quality < 3
            /\ key \in DOMAIN goodRun
            /\ r.repetitions = goodRun[key]

C22_RepetitionsCountSuccesses ==
    []RepetitionsCountGoodRun /\ [][RepetitionsStep]_vars

\* The card was reviewed with quality 1 and then with qualities 3 and 4:
\* the count restarted and stands at 2.
C22_Witness ==
    /\ Returned("recordReview")
    /\ nCalls = 4
    /\ ReviewOf(getReviews, "d1", "c1") /= <<>>
    /\ ReviewOf(getReviews, "d1", "c1")[1].repetitions = 2
    /\ ReviewOf(getReviews, "d1", "c1")[1].easeFactor = 182
    /\ goodRun[<<"d1", "c1">>] = 2

(***************************************************************************)
(* C23.  The interval recordReview stores is the quality adjustment of the *)
(* base interval.  The base is 1 for new repetitions 0, 6 for new          *)
(* repetitions 1 and round(oldInterval * newEaseFactor) from then on; the  *)
(* adjustment is max(1, round(base * 0.2)) for quality 1,                  *)
(* max(1, round(base * 0.6)) for quality 2, base for quality 3 and         *)
(* round(base * 1.3) for quality 4.                                        *)
(***************************************************************************)
\* The integer nearest to n / d, halves going up (n >= 0, d > 0).
Nearest(n, d) ==
    CHOOSE k \in 0 .. n : 2 * d * k - d <= 2 * n /\ 2 * n < 2 * d * k + d

AtLeastOne(n) == IF n < 1 THEN 1 ELSE n

\* The base interval the claim gives for the step, from the record before
\* and the ease factor (hundredths) and repetitions stored by the step.
ClaimedBase ==
    IF RecordAfter[1].repetitions = 0 THEN 1
    ELSE IF RecordAfter[1].repetitions = 1 THEN 6
    ELSE Nearest(RecordBefore[1].interval * RecordAfter[1].easeFactor, 100)

C23_IntervalFormula ==
    [][\A q \in Qualities :
          Reviewed(q) =>
              /\ RecordAfter /= <<>>
              /\ RecordAfter[1].interval =
                    CASE q = 1 -> AtLeastOne(Nearest(ClaimedBase * 2, 10))
                      [] q = 2 -> AtLeastOne(Nearest(ClaimedBase * 6, 10))
                      [] q = 3 -> ClaimedBase
                      [] q = 4 -> Nearest(ClaimedBase * 13, 10)]_vars

\* Good, good, easy: 6 days, round(6 * 2.36) = 14 days, then
\* round(round(14 * 2.36) * 1.3) = round(33 * 1.3) = 43 days.
C23_Witness ==
    /\ Returned("recordReview")
    /\ lastCall.quality = 4
    /\ nCalls = 3
    /\ ReviewOf(getReviews, "d1", "c1") /= <<>>
    /\ ReviewOf(getReviews, "d1", "c1")[1].repetitions = 3
    /\ ReviewOf(getReviews, "d1", "c1")[1].easeFactor = 236
    /\ ReviewOf(getReviews, "d1", "c1")[1].interval = 43

(***************************************************************************)
(* C24.  Every stored review record has nextReview = reviewDate +          *)
(* interval * 24 hours exactly, whatever the time of day of the review,    *)
(* and when recordReview has returned the reviewDate of the record it      *)
(* wrote is the time of the call.                                          *)
(***************************************************************************)
C24_NextReviewExact ==
    /\ \A i \in 1 .. Len(getReviews) :
          /\ getReviews[i].nextReview
               = getReviews[i].reviewDate + getReviews[i].interval * 24
          /\ getReviews[i].reviewDate <= now
    /\ Returned("recordReview") =>
          \E i \in 1 .. Len(getReviews) :
              /\ getReviews[i].cardId = lastCall.cardId
              /\ getReviews[i].studyPackId = lastCall.studyPackId
              /\ getReviews[i].reviewDate = now

\* A first review at noon with quality 4: due at noon eight days later.
C24_Witness ==
    /\ Returned("recordReview")
    /\ now = 12
    /\ \E i \in 1 .. Len(getReviews) :
          /\ getReviews[i].reviewDate = 12
          /\ getReviews[i].interval = 8
          /\ getReviews[i].nextReview = 204

(***************************************************************************)
(* C25.  getTodayStats(D).reviewed is the number of recordReview calls     *)
(* made for deck D since today's midnight, a card reviewed twice counting  *)
(* twice, and accuracy is the fraction of those calls with quality >= 3,   *)
(* or 0 when there are none.                                               *)
(***************************************************************************)
\* Today's returned recordReview calls for the deck, and those among them
\* with quality >= 3.
CallsToday(d) ==
    IF <<d, Today>> \in DOMAIN tally THEN tally[<<d, Today>>].count ELSE 0

GoodCallsToday(d) ==
    IF <<d, Today>> \in DOMAIN tally THEN tally[<<d, Today>>].good ELSE 0

C25_TodayStatsCountCalls ==
    \A d \in Decks :
        /\ getTodayStats(d).reviewed = CallsToday(d)
        /\ getTodayStats(d).accuracy =
              IF CallsToday(d) = 0 THEN Frac(0, 1)
              ELSE Frac(GoodCallsToday(d), CallsToday(d))

(***************************************************************************)
(* C26.  With the recordReview calls for one (deck, card) pair made one    *)
(* after the other, and calls for different pairs running at the same time *)
(* in two tabs: when no call is running, the store holds a record of every *)
(* pair that was reviewed, and each day's session record of a deck counts  *)
(* every review of the deck made that day.                                 *)
(***************************************************************************)
C26_NoReviewLost ==
    (\A tab \in Tabs : tabs[tab].pc = "idle") =>
        /\ \A key \in DOMAIN goodRun :
              ReviewOf(getReviews, key[1], key[2]) /= <<>>
        /\ \A key \in DOMAIN tally :
              \E i \in SessionsOf(key[1], key[2]) :
                  getSessions[i].cardsReviewed = tally[key].count

(***************************************************************************)
(* C27.  With qualities 1..4 the ease factor of a card never increases:    *)
(* the ease factor recordReview stores is at most 2.5 and at most the one  *)
(* of the record the card had before, and equal to it only for quality 4   *)
(* or when that one was the floor 1.3 already.                             *)
(***************************************************************************)
C27_EaseNeverIncreases ==
    [][\A q \in Qualities :
          Reviewed(q) =>
              /\ RecordAfter /= <<>>
              /\ RecordAfter[1].easeFactor <= 250
              /\ RecordBefore /= <<>> =>
                    /\ RecordAfter[1].easeFactor <= RecordBefore[1].easeFactor
                    /\ RecordAfter[1].easeFactor = RecordBefore[1].easeFactor
                          => (q = 4 \/ RecordBefore[1].easeFactor = 130)
                    /\ q = 4
                          => RecordAfter[1].easeFactor
                               = RecordBefore[1].easeFactor]_vars

\* After "again" lowered the ease to 1.96, "easy" has left it there.
C27_Witness ==
    /\ Returned("recordReview")
    /\ lastCall.quality = 4
    /\ nCalls = 3
    /\ ReviewOf(getReviews, "d1", "c1") /= <<>>
    /\ ReviewOf(getReviews, "d1", "c1")[1].easeFactor = 196
    /\ ReviewOf(getReviews, "d1", "c1")[1].repetitions = 1

(***************************************************************************)
(* C28.  Every interval stored by recordReview with a quality in 1..4 is   *)
(* at least 1 day.  So for less than 24 hours after the review that wrote  *)
(* a card's record - at the moment recordReview returns in particular -    *)
(* the card is not in the result of getDueCards and is in the result of    *)
(* getUpcomingCards (the limit leaving room for it).                       *)
(***************************************************************************)
C28_ReviewedCardNotDueForADay ==
    \A i \in 1 .. Len(getReviews) :
        LET r == getReviews[i]
        IN  /\ r.interval >= 1
            /\ now < r.reviewDate + 24 =>
                  \A C \in CardLists :
                      r.cardId \in Range(C) =>
                          /\ r.cardId \notin Range(Ids(getDueCards(r.studyPackId, C)))
                          /\ r.cardId \in
                                Range(Ids(getUpcomingCards(r.studyPackId, C,
                                                           DefaultLimit)))

\* Half a day after a review with quality 1 (interval 1 day) the card is
\* upcoming and the deck's other card, never reviewed, is the one due.
C28_Witness ==
    /\ lastCall.op = "tick"
    /\ now = 12
    /\ ReviewOf(getReviews, "d1", "c1") /= <<>>
    /\ ReviewOf(getReviews, "d1", "c1")[1].reviewDate = 0
    /\ ReviewOf(getReviews, "d1", "c1")[1].interval = 1
    /\ Ids(getDueCards("d1", <<"c1", "c2">>)) = <<"c2">>
    /\ Ids(getUpcomingCards("d1", <<"c1", "c2">>, DefaultLimit)) = <<"c1">>

(***************************************************************************)
(* C29.  recordReview(D, c, q) leaves the review records of every other    *)
(* (card, deck) pair and the session records of every other deck or day as *)
(* they were; deleteData(D) leaves every review and session record of the  *)
(* other decks as it was.                                                  *)
(***************************************************************************)
ReviewsAfter == ParseItem(localStorage'[REVIEWS_KEY])
SessionsAfter == ParseItem(localStorage'[SESSIONS_KEY])

\* The records of a list that are not of the pair, of the deck's day, of
\* the deck.
NotOfPair(reviews, d, c) ==
    SelectSeq(reviews, LAMBDA r : ~(r.cardId = c /\ r.studyPackId = d))

NotOfDay(sessions, d, t) ==
    SelectSeq(sessions,
              LAMBDA s : ~(s.studyPackId = d
                           /\ s.date \div HoursPerDay = t \div HoursPerDay))

NotOfDeck(list, d) == SelectSeq(list, LAMBDA r : r.studyPackId /= d)

C29_OtherDecksUntouched ==
    [][\A d \in Decks :
          /\ \A c \in Cards, q \in Qualities :
                (Reviewed(q) /\ lastCall'.studyPackId = d
                             /\ lastCall'.cardId = c) =>
                    /\ NotOfPair(ReviewsAfter, d, c) = NotOfPair(getReviews, d, c)
                    /\ NotOfDay(SessionsAfter, d, now)
                         = NotOfDay(getSessions, d, now)
          /\ Deleted(d) =>
                /\ NotOfDeck(ReviewsAfter, d) = NotOfDeck(getReviews, d)
                /\ NotOfDeck(SessionsAfter, d) = NotOfDeck(getSessions, d)]_vars

\* The same card has been reviewed in both decks, the second review a day
\* after the first: the record and the session of the first are there.
C29_Witness ==
    /\ Returned("recordReview")
    /\ lastCall.studyPackId = "d2"
    /\ lastCall.cardId = "c1"
    /\ now = HoursPerDay
    /\ Len(getReviews) = 2
    /\ getReviews[1].studyPackId = "d1"
    /\ getReviews[1].cardId = "c1"
    /\ getReviews[1].reviewDate = 0
    /\ Len(getSessions) = 2
    /\ getSessions[1].studyPackId = "d1"

(***************************************************************************)
(* C30.  After deleteData(D), whatever reviews came before and until the   *)
(* next review of D, deck D is as it was at the start: getDueCards(D, C)   *)
(* returns every card of C with no lastReview, interval 0 and repetitions  *)
(* 0, getUpcomingCards(D, C) returns nothing, getTodayStats(D) returns     *)
(* reviewed 0, learned 0, accuracy 0 and streak 0; and the first review of *)
(* a card of D after the deletion stores the ease factor 2.5.              *)
(***************************************************************************)
\* No review of the deck has returned since its data was last deleted (or
\* at all).
NotReviewedSinceDeletion(d) == \A key \in DOMAIN goodRun : key[1] /= d

DeckIsInitial ==
    \A d \in Decks :
        NotReviewedSinceDeletion(d) =>
            /\ \A C \in CardLists :
                  /\ getDueCards(d, C) =
                        [i \in 1 .. Len(C) |->
                            [id |-> C[i], lastReview |-> <<>>, nextReview |-> now,
                             interval |-> 0, repetitions |-> 0]]
                  /\ getUpcomingCards(d, C, DefaultLimit) = <<>>
            /\ getTodayStats(d) =
                  [reviewed |-> 0, learned |-> 0,
                   accuracy |-> [num |-> 0, den |-> 1], streak |-> 0]

FirstReviewStartsAnew ==
    \A q \in Qualities :
        (Reviewed(q) /\ NotReviewedSinceDeletion(lastCall'.studyPackId)) =>
            /\ RecordAfter /= <<>>
            /\ RecordAfter[1].easeFactor = 250
            /\ RecordAfter[1].repetitions = IF q < 3 THEN 0 ELSE 1

C30_DeleteRestoresInitialState ==
    []DeckIsInitial /\ [][FirstReviewStartsAnew]_vars

\* deleteData("d1") has returned on the second day, after reviews on the
\* first, and the other deck's review and session are still there.
C30_Witness ==
    /\ Returned("deleteData")
    /\ lastCall.studyPackId = "d1"
    /\ nCalls = 3
    /\ now = HoursPerDay
    /\ Len(getReviews) = 1
    /\ getReviews[1].studyPackId = "d2"
    /\ Len(getSessions) = 1
    /\ getSessions[1].cardsReviewed = 1
    /\ getTodayStats("d1").streak = 0
    /\ getTodayStats("d2").streak = 1

====
